---- MODULE Spec2Model ----
(***************************************************************************)
(* Model of the content-based medicine recommender                         *)
(* (src/medicine_recommender.py, driven by src/main.py).                   *)
(*                                                                         *)
(* Python strings are sequences of one-character strings, so that lower(), *)
(* strip(), the substring test and the vectorizer's tokenizer are computed *)
(* character by character.  Python list positions are 0-based; positions   *)
(* here are 1-based (position p here is index p-1 in the source).          *)
(* None is the empty sequence and a present value x is <<x>>.              *)
(***************************************************************************)
EXTENDS Integers, Sequences, FiniteSets, TLC

(***************************************************************************)
(* Bounds of the model.                                                    *)
(***************************************************************************)
\* Largest top_n a caller passes; the smallest is MinTopN.
MaxTopN == 3

\* Largest number of medicines the user asks the collector to fetch.
MaxFetchLimit == 2

MinTopN == 0 - 1

None == <<>>
Some(x) == <<x>>

(***************************************************************************)
(* Strings.                                                                *)
(***************************************************************************)
LowerOf == [A |-> "a", B |-> "b", C |-> "c", D |-> "d", E |-> "e", F |-> "f",
            G |-> "g", H |-> "h", I |-> "i", J |-> "j", K |-> "k", L |-> "l",
            M |-> "m", N |-> "n", O |-> "o", P |-> "p", Q |-> "q", R |-> "r",
            S |-> "s", T |-> "t", U |-> "u", V |-> "v", W |-> "w", X |-> "x",
            Y |-> "y", Z |-> "z"]

LowerLetters == {LowerOf[c] : c \in DOMAIN LowerOf}

Digits == {"0", "1", "2", "3", "4", "5", "6", "7", "8", "9"}

\* The characters the regular expression class \w matches.
WordChars == LowerLetters \cup DOMAIN LowerOf \cup Digits \cup {"_"}

\* The characters str.strip() removes.
Whitespace == {" ", "\t", "\n"}

\* str.lower()
lower(s) == [i \in DOMAIN s |-> IF s[i] \in DOMAIN LowerOf THEN LowerOf[s[i]] ELSE s[i]]

RECURSIVE lstrip(_)
lstrip(s) == IF s # <<>> /\ Head(s) \in Whitespace THEN lstrip(Tail(s)) ELSE s

RECURSIVE rstrip(_)
rstrip(s) ==
    IF s # <<>> /\ s[Len(s)] \in Whitespace THEN rstrip(SubSeq(s, 1, Len(s) - 1)) ELSE s

\* str.strip()
strip(s) == rstrip(lstrip(s))

\* sub in s  (Python's substring test; the empty string is in every string)
contains(sub, s) ==
    \E i \in 0..(Len(s) - Len(sub)) : SubSeq(s, i + 1, i + Len(sub)) = sub

\* sep.join(parts)
RECURSIVE join(_, _)
join(sep, parts) ==
    IF parts = <<>> THEN <<>>
    ELSE IF Len(parts) = 1 THEN parts[1]
    ELSE parts[1] \o sep \o join(sep, Tail(parts))

\* dict.get(key, [])
get(d, key) == IF key \in DOMAIN d THEN d[key] ELSE <<>>

(***************************************************************************)
(* The text the database files and the callers use.                        *)
(***************************************************************************)
s_pain_relief == <<"p", "a", "i", "n", " ", "r", "e", "l", "i", "e", "f">>
s_fever == <<"f", "e", "v", "e", "r">>
s_acetylsalicylic_acid ==
    <<"a", "c", "e", "t", "y", "l", "s", "a", "l", "i", "c", "y", "l", "i", "c", " ",
      "a", "c", "i", "d">>
s_inflammation == <<"i", "n", "f", "l", "a", "m", "m", "a", "t", "i", "o", "n">>
s_ibuprofen == <<"i", "b", "u", "p", "r", "o", "f", "e", "n">>
s_bacterial_infection ==
    <<"b", "a", "c", "t", "e", "r", "i", "a", "l", " ", "i", "n", "f", "e", "c", "t",
      "i", "o", "n">>
s_amoxicillin == <<"a", "m", "o", "x", "i", "c", "i", "l", "l", "i", "n">>
s_Aspirin == <<"A", "s", "p", "i", "r", "i", "n">>
s_aspirin == <<"a", "s", "p", "i", "r", "i", "n">>
s_Ibuprofen == <<"I", "b", "u", "p", "r", "o", "f", "e", "n">>
s_Amoxicillin == <<"A", "m", "o", "x", "i", "c", "i", "l", "l", "i", "n">>
s_Advil == <<"A", "d", "v", "i", "l">>
s_Placebo == <<"P", "l", "a", "c", "e", "b", "o">>
s_spir == <<"s", "p", "i", "r">>
s_Zyrtec == <<"Z", "y", "r", "t", "e", "c">>
s_IBUPROFEN_padded == <<" ", "I", "B", "U", "P", "R", "O", "F", "E", "N", " ">>
s_Baby_Aspirin == <<"B", "a", "b", "y", " ", "A", "s", "p", "i", "r", "i", "n">>
s_Pain_relief == <<"P", "a", "i", "n", " ", "r", "e", "l", "i", "e", "f">>
s_ASPIRIN == <<"A", "S", "P", "I", "R", "I", "N">>
s_SPIR == <<"S", "P", "I", "R">>
s_spir_padded == <<" ", "s", "p", "i", "r">>
s_empty == <<>>
s_blank == <<" ", "\t">>

(***************************************************************************)
(* Medicine records (the dictionaries of the "medicines" list).            *)
(***************************************************************************)
Aspirin ==
    [name |-> s_Aspirin, uses |-> <<s_pain_relief, s_fever>>,
     components |-> <<s_acetylsalicylic_acid>>]

Ibuprofen ==
    [name |-> s_Ibuprofen, uses |-> <<s_pain_relief, s_inflammation>>,
     components |-> <<s_ibuprofen>>]

Amoxicillin ==
    [name |-> s_Amoxicillin, uses |-> <<s_bacterial_infection>>,
     components |-> <<s_amoxicillin>>]

\* A second record whose lowercased name is that of Aspirin.
AspirinGeneric ==
    [name |-> s_aspirin, uses |-> <<s_fever>>, components |-> <<s_acetylsalicylic_acid>>]

\* A record with the feature text of Ibuprofen under another name.
Advil ==
    [name |-> s_Advil, uses |-> <<s_pain_relief, s_inflammation>>,
     components |-> <<s_ibuprofen>>]

\* A record with neither uses nor components.
Placebo == [name |-> s_Placebo, uses |-> <<>>, components |-> <<>>]

\* A record whose name contains the name of Aspirin, with a use spelled in
\* another case than Aspirin's and a use that is a component of Aspirin.
BabyAspirin ==
    [name |-> s_Baby_Aspirin,
     uses |-> <<s_fever, s_Pain_relief, s_acetylsalicylic_acid>>,
     components |-> <<s_acetylsalicylic_acid>>]

\* A record with a name and no other key.
Unlabelled == [name |-> s_Zyrtec]

\* A record without the "name" key.
Nameless == [uses |-> <<s_fever>>, components |-> <<s_amoxicillin>>]

(***************************************************************************)
(* What open(database_path) and json.load can find at a call of            *)
(* load_database: no file, a file that is not JSON, or a JSON object.      *)
(***************************************************************************)
JsonFile(data) == [kind |-> "json", data |-> data]

Catalogues ==
    { <<>>,
      <<Aspirin>>,
      <<Aspirin, Ibuprofen>>,
      <<Aspirin, Ibuprofen, Amoxicillin>>,
      <<Aspirin, AspirinGeneric, Ibuprofen>>,
      <<Ibuprofen, Advil, Amoxicillin>>,
      <<Placebo, Aspirin, Ibuprofen>>,
      <<Ibuprofen, Advil>>,
      <<Aspirin, Nameless>>,
      <<BabyAspirin, Aspirin>>,
      <<Placebo, Unlabelled>> }

Files ==
    { [kind |-> "missing"], [kind |-> "invalid_json"], JsonFile([version |-> <<"1">>]) }
        \cup { JsonFile([medicines |-> c]) : c \in Catalogues }

\* The names callers ask for.
Names == {s_Aspirin, s_aspirin, s_spir, s_IBUPROFEN_padded, s_Amoxicillin, s_Zyrtec}

\* The names callers look up with find_medicine: those above and other
\* spellings of them.
Spellings == Names \cup {s_ASPIRIN, s_SPIR, s_spir_padded, s_empty, s_blank}

TopNs == MinTopN..MaxTopN

Max(S) == CHOOSE x \in S : \A y \in S : y <= x

\* The most rows a feature matrix can have.
MaxRows == Max({Len(c) : c \in Catalogues})

Range(f) == {f[i] : i \in DOMAIN f}

(***************************************************************************)
(* TfidfVectorizer(lowercase=True, analyzer='word', ngram_range=(1, 2),    *)
(* min_df=1, max_df=0.95), as build_vectorizer configures it, and its      *)
(* fit_transform, which train_model calls.                                 *)
(***************************************************************************)
\* min_df: a term is kept when at least this many documents hold it.
min_df == 1
\* max_df = 0.95, in percent of the documents.
max_df_percent == 95

\* The default token_pattern \b\w\w+\b: the maximal runs of word characters
\* that are at least two characters long, in order.
RECURSIVE tokenize_from(_, _, _)
tokenize_from(s, cur, acc) ==
    LET closed == IF Len(cur) >= 2 THEN Append(acc, cur) ELSE acc
    IN  IF s = <<>> THEN closed
        ELSE IF Head(s) \in WordChars
             THEN tokenize_from(Tail(s), Append(cur, Head(s)), acc)
             ELSE tokenize_from(Tail(s), <<>>, closed)

tokenize(s) == tokenize_from(s, <<>>, <<>>)

\* ngram_range=(1, 2): every token, then every pair of adjacent tokens joined
\* by one space.
word_ngrams(tokens) ==
    tokens \o [i \in 1..(Len(tokens) - 1) |-> tokens[i] \o <<" ">> \o tokens[i + 1]]

\* The analyzer: lowercase, tokenize, n-grams.
analyze(doc) == word_ngrams(tokenize(lower(doc)))

count(t, terms) == Cardinality({i \in DOMAIN terms : terms[i] = t})

\* 1000 * ln(k) for k = 1..8, rounded.
LnMilli == <<0, 693, 1099, 1386, 1609, 1792, 1946, 2079>>

\* smooth_idf: idf(t) = ln((1 + n) / (1 + df(t))) + 1, in tenths, rounded.
idf(n_doc, df) == (LnMilli[1 + n_doc] - LnMilli[1 + df] + 1000 + 50) \div 100

\* fit_transform(raw_documents).  It raises ValueError when no document holds
\* a token ("empty vocabulary"), when max_df * n_doc < min_df, and when no
\* term is kept ("After pruning, no terms remain").  Otherwise X has one row
\* per document: the sparse map from the kept terms of the document to
\* tf * idf.  The rows are kept unscaled: the l2 norm of TfidfVectorizer
\* divides a row by a positive number, which cosine_similarity, normalising
\* both operands again, undoes.  The column numbers of vocabulary_ are not
\* modelled: nothing reads them.
fit_transform(raw_documents) ==
    LET n_doc == Len(raw_documents)
        analyzed == [i \in DOMAIN raw_documents |-> analyze(raw_documents[i])]
        vocabulary == UNION {Range(analyzed[i]) : i \in DOMAIN analyzed}
        df(t) == Cardinality({i \in DOMAIN analyzed : t \in Range(analyzed[i])})
        kept == {t \in vocabulary :
                    df(t) >= min_df /\ 100 * df(t) <= max_df_percent * n_doc}
    IN  IF vocabulary = {} \/ max_df_percent * n_doc < 100 * min_df \/ kept = {}
        THEN [raised |-> "ValueError", vocabulary_ |-> {}, X |-> <<>>]
        ELSE [raised |-> "none",
              vocabulary_ |-> kept,
              X |-> [i \in DOMAIN analyzed |->
                        [t \in kept \cap Range(analyzed[i]) |->
                            count(t, analyzed[i]) * idf(n_doc, df(t))]]]

(***************************************************************************)
(* sklearn.metrics.pairwise.cosine_similarity and numpy.argsort.           *)
(***************************************************************************)
RECURSIVE SumOver(_, _)
SumOver(S, f) ==
    IF S = {} THEN 0
    ELSE LET x == CHOOSE y \in S : TRUE IN f[x] + SumOver(S \ {x}, f)

dot(a, b) ==
    LET common == DOMAIN a \cap DOMAIN b
    IN  SumOver(common, [t \in common |-> a[t] * b[t]])

\* The largest r with r * r <= x, for lo * lo <= x < hi * hi.
RECURSIVE isqrt_in(_, _, _)
isqrt_in(x, lo, hi) ==
    IF hi - lo <= 1 THEN lo
    ELSE LET mid == (lo + hi) \div 2
         IN  IF mid * mid <= x THEN isqrt_in(x, mid, hi) ELSE isqrt_in(x, lo, mid)

isqrt(x) == isqrt_in(x, 0, 46341)

\* The scores are fixed-point numbers: Unit stands for 1.0.
Unit == 100 * 1000

\* The dot product of two rows as fit_transform left them, not divided by
\* their norms (a weight is in tenths, a product of two in hundredths).
dot_product(a, b) == (dot(a, b) * Unit) \div 100

\* The cosine of two rows; a row of norm 0 has cosine 0 with every row.
cosine(a, b) ==
    LET na == dot(a, a)
        nb == dot(b, b)
    IN  IF na = 0 \/ nb = 0 THEN 0 ELSE (dot(a, b) * Unit) \div isqrt(na * nb)

\* cosine_similarity(x, Y).flatten(): the score of x against every row of Y.
cosine_similarity(x, Y) == [j \in DOMAIN Y |-> cosine(x, Y[j])]

\* The position of the largest value, once for every position of a.
argmax_repeated(a, ties) ==
    [k \in DOMAIN a |-> CHOOSE i \in DOMAIN a : \A j \in DOMAIN a : a[j] <= a[i]]

\* np.argsort(a) without the [::-1]: the positions by ascending value.
argsort_not_reversed(a, ties) ==
    LET before(i, j) == a[i] < a[j] \/ (a[i] = a[j] /\ ties[i] < ties[j])
    IN  [k \in DOMAIN a |->
            CHOOSE i \in DOMAIN a :
                Cardinality({j \in DOMAIN a : before(j, i)}) = k - 1]

\* np.argsort(a)[::-1]: the positions by descending value.  argsort's default
\* kind is quicksort, which is not stable: the order it leaves equal values
\* in depends on the numpy build.  ties is that order, the rank of each
\* position among equal values.
argsort_reversed(a, ties) ==
    LET before(i, j) == a[i] > a[j] \/ (a[i] = a[j] /\ ties[i] < ties[j])
    IN  [k \in DOMAIN a |->
            CHOOSE i \in DOMAIN a :
                Cardinality({j \in DOMAIN a : before(j, i)}) = k - 1]

(***************************************************************************)
(* The state of a MedicineRecommender and of its caller.                   *)
(***************************************************************************)
VARIABLES
    medicines,           \* self.medicines: the list of records
    vectorizer,          \* self.vectorizer: None or the TfidfVectorizer
    feature_vectors,     \* self.feature_vectors: None or the tf-idf matrix
    medicine_index_map,  \* self.medicine_index_map: lowercased name -> position
    argsort_ties,        \* the order this numpy build leaves equal values in
    call,                \* the call that has just returned or raised, or Idle
    ret,                 \* what it returned: NoReturn when it raised
    raised,              \* the exception it raised, or "none"
    stdout,              \* what it printed
    trained_ok,          \* history: some train_model call has returned True
    loaded_since_train,  \* history: a load_database call has returned True
                         \* after the last train_model call that returned True
    trained_on           \* history: the list train_model last succeeded on

vars ==
    <<medicines, vectorizer, feature_vectors, medicine_index_map, argsort_ties,
      call, ret, raised, stdout, trained_ok, loaded_since_train, trained_on>>

model_vars == <<medicines, vectorizer, feature_vectors, medicine_index_map>>

history_vars == <<trained_ok, loaded_since_train, trained_on>>

\* Between two calls: the caller holds no pending result.
Idle == [op |-> "idle"]

\* What a call hands back: a bool (load_database, train_model), a list
\* (recommend_similar), or nothing when it raised.
NoReturn == [kind |-> "none", bool |-> FALSE, list |-> <<>>]
ReturnBool(b) == [kind |-> "bool", bool |-> b, list |-> <<>>]
ReturnList(l) == [kind |-> "list", bool |-> FALSE, list |-> l]
\* find_medicine hands back None or a record: found is None or the record
\* with the position it was read from.
ReturnFound(found) == [kind |-> "found", bool |-> FALSE, list |-> found]
\* get_recommendation_details hands back the text built from details.
ReturnDetails(details) == [kind |-> "details", bool |-> FALSE, list |-> details]

\* __init__
Init ==
    /\ medicines = <<>>
    /\ vectorizer = None
    /\ feature_vectors = None
    /\ medicine_index_map = <<>>
    /\ argsort_ties \in Permutations(1..MaxRows)
    /\ call = Idle
    /\ ret = NoReturn
    /\ raised = "none"
    /\ stdout = <<>>
    /\ trained_ok = FALSE
    /\ loaded_since_train = FALSE
    /\ trained_on = None

(***************************************************************************)
(* load_database                                                           *)
(***************************************************************************)
\* The index map in which the first record of a lowercased name wins.
index_map_first_wins(meds) ==
    LET keys == {lower(meds[i].name) : i \in DOMAIN meds}
    IN  [k \in keys |->
            CHOOSE i \in DOMAIN meds :
                /\ lower(meds[i].name) = k
                /\ \A j \in DOMAIN meds : lower(meds[j].name) = k => i <= j]

\* {med['name'].lower(): idx for idx, med in enumerate(meds)}: the last
\* record of a lowercased name wins.
index_map(meds) ==
    LET keys == {lower(meds[i].name) : i \in DOMAIN meds}
    IN  [k \in keys |-> Max({i \in DOMAIN meds : lower(meds[i].name) = k})]

\* One call of load_database, the path holding f.  self.medicines is
\* assigned before the index map is built, so a record without a name leaves
\* the new list beside the old map and the KeyError leaves the method.
load_database(f) ==
    LET meds == get(f.data, "medicines")
        opened == f.kind = "json"
        named == opened /\ \A i \in DOMAIN meds : "name" \in DOMAIN meds[i]
    IN  /\ call = Idle
        /\ call' = [op |-> "load_database", file |-> f]
        /\ medicines' = IF opened THEN meds ELSE medicines
        /\ medicine_index_map' = IF named THEN index_map(meds) ELSE medicine_index_map
        /\ ret' = IF ~opened THEN ReturnBool(FALSE)
                  ELSE IF named THEN ReturnBool(TRUE) ELSE NoReturn
        /\ raised' = IF opened /\ ~named THEN "KeyError" ELSE "none"
        /\ stdout' = IF f.kind = "missing" THEN <<"Error: Database file not found.">>
                     ELSE IF f.kind = "invalid_json" THEN <<"Error: Invalid JSON.">>
                     ELSE IF named THEN <<"Loaded medicines from database.">>
                     ELSE <<>>
        /\ loaded_since_train' = IF named THEN TRUE ELSE loaded_since_train
        /\ UNCHANGED <<vectorizer, feature_vectors, argsort_ties, trained_ok, trained_on>>

(***************************************************************************)
(* train_model                                                             *)
(***************************************************************************)
\* The feature text made of the components alone.
prepare_features_components_only(medicine) ==
    strip(join(<<" ">>, get(medicine, "components")))

\* ' '.join(uses) + ' ' + ' '.join(components), stripped
prepare_features(medicine) ==
    strip(join(<<" ">>, get(medicine, "uses")) \o <<" ">>
            \o join(<<" ">>, get(medicine, "components")))

\* build_vectorizer: a vectorizer not yet fitted.
build_vectorizer == Some([fitted |-> FALSE, vocabulary_ |-> {}])

\* One call of train_model.  A ValueError of fit_transform leaves the method
\* before feature_vectors is assigned.
train_model ==
    LET built == IF vectorizer = None THEN build_vectorizer ELSE vectorizer
        feature_texts == [i \in DOMAIN medicines |-> prepare_features(medicines[i])]
        fit == fit_transform(feature_texts)
        empty == medicines = <<>>
        ok == ~empty /\ fit.raised = "none"
    IN  /\ call = Idle
        /\ call' = [op |-> "train_model"]
        /\ vectorizer' = IF empty THEN vectorizer
                         ELSE IF ok THEN Some([fitted |-> TRUE, vocabulary_ |-> fit.vocabulary_])
                         ELSE built
        /\ feature_vectors' = IF ok THEN Some(fit.X) ELSE feature_vectors
        /\ ret' = IF empty THEN ReturnBool(FALSE)
                  ELSE IF ok THEN ReturnBool(TRUE) ELSE NoReturn
        /\ raised' = IF empty \/ ok THEN "none" ELSE fit.raised
        /\ stdout' = IF empty THEN <<"Error: No medicines loaded.">>
                     ELSE IF ok THEN <<"Model trained.">>
                     ELSE <<>>
        /\ trained_ok' = (trained_ok \/ ok)
        /\ loaded_since_train' = IF ok THEN FALSE ELSE loaded_since_train
        /\ trained_on' = IF ok THEN Some(medicines) ELSE trained_on
        /\ UNCHANGED <<medicines, medicine_index_map, argsort_ties>>

(***************************************************************************)
(* find_medicine                                                           *)
(***************************************************************************)
\* The fuzzy search returning the last record whose lowercased name contains
\* name_lower, not the first.
RECURSIVE fuzzy_search_last_match(_, _)
fuzzy_search_last_match(name_lower, i) ==
    IF i > Len(medicines) THEN [raised |-> "none", found |-> None]
    ELSE IF "name" \notin DOMAIN medicines[i] THEN [raised |-> "KeyError", found |-> None]
    ELSE LET later == fuzzy_search_last_match(name_lower, i + 1)
         IN  IF later.raised # "none" \/ later.found # None THEN later
             ELSE IF contains(name_lower, lower(medicines[i].name))
                  THEN [raised |-> "none", found |-> Some(i)]
                  ELSE later

\* The fuzzy search: the first record, from position i on, whose lowercased
\* name contains name_lower.  Reading the name of a record without one
\* raises KeyError.
RECURSIVE fuzzy_search(_, _)
fuzzy_search(name_lower, i) ==
    IF i > Len(medicines) THEN [raised |-> "none", found |-> None]
    ELSE IF "name" \notin DOMAIN medicines[i] THEN [raised |-> "KeyError", found |-> None]
    ELSE IF contains(name_lower, lower(medicines[i].name))
         THEN [raised |-> "none", found |-> Some(i)]
         ELSE fuzzy_search(name_lower, i + 1)

\* find_medicine comparing the name as it is spelled.
find_medicine_case_sensitive(name) ==
    LET name_lower == strip(name)
    IN  IF name_lower \in DOMAIN medicine_index_map
        THEN LET idx == medicine_index_map[name_lower]
             IN  IF idx \in DOMAIN medicines
                 THEN [raised |-> "none", found |-> Some(idx)]
                 ELSE [raised |-> "IndexError", found |-> None]
        ELSE fuzzy_search(name_lower, 1)

\* find_medicine trying the fuzzy search before the index map.
find_medicine_fuzzy_first(name) ==
    LET name_lower == strip(lower(name))
        fuzzy == fuzzy_search(name_lower, 1)
    IN  IF fuzzy.raised # "none" \/ fuzzy.found # None THEN fuzzy
        ELSE IF name_lower \in DOMAIN medicine_index_map
        THEN LET idx == medicine_index_map[name_lower]
             IN  IF idx \in DOMAIN medicines
                 THEN [raised |-> "none", found |-> Some(idx)]
                 ELSE [raised |-> "IndexError", found |-> None]
        ELSE fuzzy

\* find_medicine(name): the position of the record it returns (found), None
\* when it returns None.
find_medicine(name) ==
    LET name_lower == strip(lower(name))
    IN  IF name_lower \in DOMAIN medicine_index_map
        THEN LET idx == medicine_index_map[name_lower]
             IN  IF idx \in DOMAIN medicines
                 THEN [raised |-> "none", found |-> Some(idx)]
                 ELSE [raised |-> "IndexError", found |-> None]
        ELSE fuzzy_search(name_lower, 1)

\* One call of find_medicine by a caller of the class.
call_find_medicine(name) ==
    LET r == find_medicine(name)
    IN  /\ call = Idle
        /\ call' = [op |-> "find_medicine", name |-> name]
        /\ ret' = IF r.raised # "none" THEN NoReturn
                  ELSE IF r.found = None THEN ReturnFound(None)
                  ELSE ReturnFound(Some([medicine |-> medicines[r.found[1]],
                                         idx |-> r.found[1]]))
        /\ raised' = r.raised
        /\ stdout' = <<>>
        /\ UNCHANGED <<medicines, vectorizer, feature_vectors, medicine_index_map,
                       argsort_ties, trained_ok, loaded_since_train, trained_on>>

(***************************************************************************)
(* recommend_similar                                                       *)
(***************************************************************************)
\* The loop with the length compared by > instead of >=.
RECURSIVE build_results_late_break(_, _, _, _, _, _)
build_results_late_break(similar_indices, similarities, input_idx, top_n, exclude_self, recs) ==
    IF similar_indices = <<>> THEN [raised |-> "none", recommendations |-> recs]
    ELSE LET idx == Head(similar_indices)
             rest == Tail(similar_indices)
         IN  IF exclude_self /\ idx = input_idx
             THEN build_results_late_break(rest, similarities, input_idx, top_n,
                                           exclude_self, recs)
             ELSE IF idx \notin DOMAIN medicines
             THEN [raised |-> "IndexError", recommendations |-> recs]
             ELSE LET entry == [medicine |-> medicines[idx],
                                score |-> similarities[idx],
                                idx |-> idx]
                      more == Append(recs, entry)
                  IN  IF Len(more) > top_n
                      THEN [raised |-> "none", recommendations |-> more]
                      ELSE build_results_late_break(rest, similarities, input_idx, top_n,
                                                    exclude_self, more)

\* The loop over similar_indices: skip input_idx when exclude_self, append
\* (self.medicines[idx], score), and only then compare the length with top_n.
\* An entry is the record, its score, and the position it was read from.
RECURSIVE build_results(_, _, _, _, _, _)
build_results(similar_indices, similarities, input_idx, top_n, exclude_self, recs) ==
    IF similar_indices = <<>> THEN [raised |-> "none", recommendations |-> recs]
    ELSE LET idx == Head(similar_indices)
             rest == Tail(similar_indices)
         IN  IF exclude_self /\ idx = input_idx
             THEN build_results(rest, similarities, input_idx, top_n, exclude_self, recs)
             ELSE IF idx \notin DOMAIN medicines
             THEN [raised |-> "IndexError", recommendations |-> recs]
             ELSE LET entry == [medicine |-> medicines[idx],
                                score |-> similarities[idx],
                                idx |-> idx]
                      more == Append(recs, entry)
                  IN  IF Len(more) >= top_n
                      THEN [raised |-> "none", recommendations |-> more]
                      ELSE build_results(rest, similarities, input_idx, top_n,
                                         exclude_self, more)

\* The check made on the vectorizer instead of the matrix.
model_not_trained_by_vectorizer == vectorizer = None

\* if self.feature_vectors is None
model_not_trained == feature_vectors = None

\* The body of recommend_similar: what it prints, raises and returns.
\* Subscripting None raises TypeError.
recommend(medicine_name, top_n, exclude_self) ==
    IF model_not_trained
    THEN [stdout |-> <<"Error: Model not trained.">>, raised |-> "none",
          recommendations |-> <<>>]
    ELSE
    LET input_medicine == find_medicine(medicine_name)
    IN  IF input_medicine.raised # "none"
        THEN [stdout |-> <<>>, raised |-> input_medicine.raised, recommendations |-> <<>>]
        ELSE IF input_medicine.found = None
        THEN [stdout |-> <<"Error: Medicine not found in database.">>, raised |-> "none",
              recommendations |-> <<>>]
        ELSE
        LET med == medicines[input_medicine.found[1]]
            X == feature_vectors[1]
        IN  IF "name" \notin DOMAIN med \/ lower(med.name) \notin DOMAIN medicine_index_map
            THEN [stdout |-> <<>>, raised |-> "KeyError", recommendations |-> <<>>]
            ELSE IF feature_vectors = None
            THEN [stdout |-> <<>>, raised |-> "TypeError", recommendations |-> <<>>]
            ELSE
            LET input_idx == medicine_index_map[lower(med.name)]
            IN  IF input_idx \notin DOMAIN X
                THEN [stdout |-> <<>>, raised |-> "IndexError", recommendations |-> <<>>]
                ELSE
                LET similarities == cosine_similarity(X[input_idx], X)
                    similar_indices ==
                        argsort_reversed(similarities,
                                         [i \in DOMAIN similarities |-> argsort_ties[i]])
                    built == build_results(similar_indices, similarities, input_idx,
                                           top_n, exclude_self, <<>>)
                IN  [stdout |-> <<>>, raised |-> built.raised,
                     recommendations |-> built.recommendations]

\* recommend_similar on a numpy whose argsort leaves equal values in an order
\* that changes from call to call.
recommend_similar_reshuffling(medicine_name, top_n, exclude_self) ==
    LET r == recommend(medicine_name, top_n, exclude_self)
    IN  /\ call = Idle
        /\ call' = [op |-> "recommend_similar", medicine_name |-> medicine_name,
                    top_n |-> top_n, exclude_self |-> exclude_self]
        /\ ret' = IF r.raised = "none" THEN ReturnList(r.recommendations) ELSE NoReturn
        /\ raised' = r.raised
        /\ stdout' = r.stdout
        /\ argsort_ties' \in Permutations(1..MaxRows)
        /\ UNCHANGED <<medicines, vectorizer, feature_vectors, medicine_index_map,
                       trained_ok, loaded_since_train, trained_on>>

\* One call of recommend_similar.
recommend_similar(medicine_name, top_n, exclude_self) ==
    LET r == recommend(medicine_name, top_n, exclude_self)
    IN  /\ call = Idle
        /\ call' = [op |-> "recommend_similar", medicine_name |-> medicine_name,
                    top_n |-> top_n, exclude_self |-> exclude_self]
        /\ ret' = IF r.raised = "none" THEN ReturnList(r.recommendations) ELSE NoReturn
        /\ raised' = r.raised
        /\ stdout' = r.stdout
        /\ UNCHANGED <<model_vars, argsort_ties, history_vars>>

(***************************************************************************)
(* get_recommendation_details                                              *)
(***************************************************************************)
\* The strings of the first record that one of the second equals up to case.
shared_ignoring_case(original_medicine, med, key) ==
    {u \in Range(get(original_medicine, key)) :
        \E v \in Range(get(med, key)) : lower(u) = lower(v)}

\* set(original_medicine.get(key, [])).intersection(set(med.get(key, [])))
shared(original_medicine, med, key) ==
    Range(get(original_medicine, key)) \cap Range(get(med, key))

\* get_recommendation_details(original_medicine, recommendations): per rank,
\* what the text shows of the recommendation: the record, its score and the
\* "Shared Uses" and "Shared Components" (a line left out stands for the
\* empty set).  Reading the name of a record without one raises KeyError.
get_recommendation_details(original_medicine, recommendations) ==
    IF \/ "name" \notin DOMAIN original_medicine
       \/ \E rank \in DOMAIN recommendations :
              "name" \notin DOMAIN recommendations[rank].medicine
    THEN [raised |-> "KeyError", details |-> <<>>]
    ELSE [raised |-> "none",
          details |->
              [rank \in DOMAIN recommendations |->
                  LET med == recommendations[rank].medicine
                  IN  [medicine |-> med,
                       score |-> recommendations[rank].score,
                       shared_uses |-> shared(original_medicine, med, "uses"),
                       shared_components |->
                           shared(original_medicine, med, "components")]]]

\* What main does with a non-empty list of recommendations: it looks the
\* name up again and has the details of the list formatted.  The lookup
\* finds what recommend_similar found: nothing changed in between.
display_results ==
    LET original_medicine == find_medicine(call.medicine_name)
        r == get_recommendation_details(medicines[original_medicine.found[1]], ret.list)
    IN  /\ call.op = "recommend_similar"
        /\ raised = "none"
        /\ ret.list # <<>>
        /\ original_medicine.raised = "none"
        /\ original_medicine.found # None
        /\ call' = [op |-> "get_recommendation_details",
                    original_medicine |-> medicines[original_medicine.found[1]],
                    recommendations |-> ret.list]
        /\ ret' = IF r.raised = "none" THEN ReturnDetails(r.details) ELSE NoReturn
        /\ raised' = r.raised
        /\ stdout' = <<>>
        /\ UNCHANGED <<medicines, vectorizer, feature_vectors, medicine_index_map,
                       argsort_ties, trained_ok, loaded_since_train, trained_on>>

(***************************************************************************)
(* The calls are synchronous: the caller makes one, reads what it printed, *)
(* raised and returned, and only then makes the next, in any order.        *)
(***************************************************************************)
caller_continues ==
    /\ call # Idle
    /\ call' = Idle
    /\ ret' = NoReturn
    /\ raised' = "none"
    /\ stdout' = <<>>
    /\ UNCHANGED <<model_vars, argsort_ties, history_vars>>

Next ==
    \/ caller_continues
    \/ \E f \in Files : load_database(f)
    \/ train_model
    \/ \E name \in Spellings : call_find_medicine(name)
    \/ display_results
    \/ \E medicine_name \in Names, top_n \in TopNs, exclude_self \in BOOLEAN :
          recommend_similar(medicine_name, top_n, exclude_self)

Spec == Init /\ [][Next]_vars

(***************************************************************************)
(* The caller of src/main.py: what it tells the user after                 *)
(* recommend_similar returned.  An empty list is reported as "No           *)
(* recommendations found ... The medicine might not exist in the           *)
(* database."                                                              *)
(***************************************************************************)
main_reports(recommendations) ==
    IF recommendations # <<>> THEN "none" ELSE "MedicineNotFound"

(***************************************************************************)
(* Vocabulary of the properties.                                           *)
(***************************************************************************)
IsRecommend == call.op = "recommend_similar"

NotTrainedMessage == <<"Error: Model not trained.">>

NotFoundMessage == <<"Error: Medicine not found in database.">>

\* The error kind the call ran into, by the branch it took.
occurred ==
    IF stdout = NotTrainedMessage THEN "ModelNotTrained"
    ELSE IF stdout = NotFoundMessage THEN "MedicineNotFound"
    ELSE "none"

\* Every record has a name (the data model's records).
WellFormed(meds) == \A i \in DOMAIN meds : "name" \in DOMAIN meds[i]

\* The service holds a well-formed catalogue and the vectors of the last
\* successful train_model were computed from that very catalogue.
TrainedCatalogue ==
    /\ feature_vectors # None
    /\ trained_on = Some(medicines)
    /\ WellFormed(medicines)

\* recommend_similar went through the ranking and returned its list.
Ranked == IsRecommend /\ raised = "none" /\ stdout = <<>>

\* What find_medicine resolves the name of the call to.  recommend_similar
\* changes nothing find_medicine reads, so it is what the call resolved.
Resolved == find_medicine(call.medicine_name)

\* The position whose vector a ranking call scored against and excluded.
InputIdx == medicine_index_map[lower(medicines[Resolved.found[1]].name)]

\* The scores a ranking call sorted.
Similarities == cosine_similarity(feature_vectors[1][InputIdx], feature_vectors[1])

Returned == ret.list

Min(a, b) == IF a <= b THEN a ELSE b

(***************************************************************************)
(* C1.  A load_database that follows a successful train_model puts the     *)
(* service back in the untrained state: a recommend_similar issued after   *)
(* that load and before the next successful train_model fails with "Model  *)
(* not trained" and returns nothing, instead of being served from the      *)
(* vectors of the previous catalogue.                                      *)
(***************************************************************************)
C1_LoadResetsToUntrained ==
    (IsRecommend /\ trained_ok /\ loaded_since_train)
        => (stdout = NotTrainedMessage /\ ret = ReturnList(<<>>))

(***************************************************************************)
(* C2.  On a service on which no train_model has yet succeeded, every      *)
(* recommend_similar call fails with "Model not trained" and yields no     *)
(* recommendations, for every name and every top_n.                        *)
(***************************************************************************)
C2_UntrainedRecommendFails ==
    (IsRecommend /\ ~trained_ok)
        => (stdout = NotTrainedMessage /\ raised = "none" /\ ret = ReturnList(<<>>))

\* A recommend_similar on a loaded catalogue on which train_model was tried
\* and raised.
C2_Witness ==
    /\ IsRecommend
    /\ ~trained_ok
    /\ medicines # <<>>
    /\ vectorizer # None
    /\ call.top_n >= 1

(***************************************************************************)
(* C3.  load_database given a catalogue with zero records fails (it does   *)
(* not report success), and the catalogue held is empty afterwards.        *)
(***************************************************************************)
C3_EmptyCatalogueRejected ==
    (/\ call.op = "load_database"
     /\ call.file.kind = "json"
     /\ get(call.file.data, "medicines") = <<>>)
        => (ret # ReturnBool(TRUE) /\ medicines = <<>>)

(***************************************************************************)
(* C4.  For every recommend_similar call, what is returned to the caller   *)
(* tells which of the error kinds ModelNotTrained and MedicineNotFound     *)
(* occurred: what the caller reads off the returned list is the kind the   *)
(* call ran into.                                                          *)
(***************************************************************************)
C4_ReturnTellsErrorKind ==
    (IsRecommend /\ raised = "none") => main_reports(Returned) = occurred

(***************************************************************************)
(* C5.  On a trained catalogue, recommend_similar with exclude_self never  *)
(* returns the record find_medicine resolved the name to, whether resolved *)
(* by exact or by fuzzy match, also when several records share a           *)
(* lowercased name.                                                        *)
(***************************************************************************)
C5_ExcludesResolvedRecord ==
    (/\ IsRecommend
     /\ TrainedCatalogue
     /\ call.exclude_self
     /\ raised = "none"
     /\ Resolved.found # None)
        => \A k \in DOMAIN Returned : Returned[k].idx # Resolved.found[1]

(***************************************************************************)
(* C6.  In the returned list, of two results with equal scores the one     *)
(* with the smaller catalogue position comes first.                        *)
(***************************************************************************)
C6_TiesByAscendingPosition ==
    (IsRecommend /\ raised = "none")
        => \A k, l \in DOMAIN Returned :
              (k < l /\ Returned[k].score = Returned[l].score)
                  => Returned[k].idx < Returned[l].idx

(***************************************************************************)
(* C7.  The returned list is sorted by non-increasing score, and every     *)
(* scored position left out by truncation has a score no larger than that  *)
(* of the last result.                                                     *)
(***************************************************************************)
C7_SortedByScore ==
    Ranked =>
        /\ \A k \in 1..(Len(Returned) - 1) : Returned[k].score >= Returned[k + 1].score
        /\ \A j \in DOMAIN Similarities :
              (/\ Returned # <<>>
               /\ ~(call.exclude_self /\ j = InputIdx)
               /\ \A k \in DOMAIN Returned : Returned[k].idx # j)
                  => Similarities[j] <= Returned[Len(Returned)].score

\* Two results of strictly decreasing positive scores, a third position with
\* a smaller score left out.
C7_Witness ==
    /\ Ranked
    /\ TrainedCatalogue
    /\ Len(Returned) = 2
    /\ Returned[1].score > Returned[2].score
    /\ Returned[2].score > 0
    /\ \E j \in DOMAIN Similarities :
          /\ \A k \in DOMAIN Returned : Returned[k].idx # j
          /\ Similarities[j] < Returned[2].score

(***************************************************************************)
(* C8.  On a trained catalogue of size S, for a name that resolves and     *)
(* top_n = N >= 1, recommend_similar with exclude_self returns exactly     *)
(* min(N, S - 1) entries; and with N >= 1 it never returns more than N.    *)
(***************************************************************************)
C8_TopNTruncation ==
    /\ (/\ IsRecommend
        /\ TrainedCatalogue
        /\ call.top_n >= 1
        /\ call.exclude_self
        /\ Resolved.found # None)
           => (/\ raised = "none"
               /\ ret.kind = "list"
               /\ Len(Returned) = Min(call.top_n, Len(medicines) - 1))
    /\ (IsRecommend /\ call.top_n >= 1 /\ raised = "none")
           => Len(Returned) <= call.top_n

\* top_n at least the catalogue size: all records but the query's come back.
C8_Witness ==
    /\ IsRecommend
    /\ TrainedCatalogue
    /\ call.exclude_self
    /\ Resolved.found # None
    /\ call.top_n >= Len(medicines)
    /\ Len(Returned) = Len(medicines) - 1
    /\ Len(Returned) >= 2

(***************************************************************************)
(* C9.  With a non-positive top_n, recommend_similar on a trained          *)
(* catalogue with a name that resolves returns an empty list and no error. *)
(***************************************************************************)
C9_EmptyWindow ==
    (/\ IsRecommend
     /\ TrainedCatalogue
     /\ call.top_n <= 0
     /\ Resolved.found # None)
        => (raised = "none" /\ ret = ReturnList(<<>>) /\ stdout = <<>>)

(***************************************************************************)
(* C10.  For a catalogue of exactly one record with non-empty uses or      *)
(* components, train_model after load_database succeeds without raising    *)
(* (and recommend_similar with exclude_self then returns an empty list).   *)
(***************************************************************************)
SingleRecordCatalogue ==
    /\ Len(medicines) = 1
    /\ WellFormed(medicines)
    /\ prepare_features(medicines[1]) # <<>>

C10_SingleRecordTrains ==
    /\ (call.op = "train_model" /\ SingleRecordCatalogue)
           => (raised = "none" /\ ret = ReturnBool(TRUE))
    /\ (/\ IsRecommend
        /\ SingleRecordCatalogue
        /\ ~loaded_since_train
        /\ call.exclude_self
        /\ Resolved.found # None)
           => (raised = "none" /\ stdout = <<>> /\ ret = ReturnList(<<>>))

(***************************************************************************)
(* C11.  On a trained catalogue the output of recommend_similar is         *)
(* repeatable: the call that follows a recommend_similar call with the     *)
(* same arguments prints, raises and returns what that call did, and a     *)
(* train_model call on the catalogue the vectors were computed from leaves *)
(* the output of every query as it was.                                    *)
(***************************************************************************)
\* What the caller gets from recommend_similar in this state.
Outcome(medicine_name, top_n, exclude_self) ==
    LET r == recommend(medicine_name, top_n, exclude_self)
    IN  [stdout |-> r.stdout, raised |-> r.raised,
         ret |-> IF r.raised = "none" THEN ReturnList(r.recommendations) ELSE NoReturn]

\* In the state a recommend_similar call left, the same call made again
\* prints, raises and returns what the first did.
RepeatedCallAgrees ==
    (IsRecommend /\ TrainedCatalogue)
        => Outcome(call.medicine_name, call.top_n, call.exclude_self)
              = [stdout |-> stdout, raised |-> raised, ret |-> ret]

\* A train_model on the catalogue the vectors were computed from leaves all
\* that recommend_similar reads as it was.
RetrainChangesNothing ==
    (TrainedCatalogue /\ call = Idle /\ call'.op = "train_model")
        => (/\ raised' = "none"
            /\ ret' = ReturnBool(TRUE)
            /\ medicines' = medicines
            /\ feature_vectors' = feature_vectors
            /\ medicine_index_map' = medicine_index_map
            /\ argsort_ties' = argsort_ties)

IsFind == call.op = "find_medicine"

\* The last load_database returned True: every record has a name and the
\* index map was built from the list held.
Loaded == WellFormed(medicines) /\ medicine_index_map = index_map(medicines)

\* What a find_medicine call that returns the record at position i returns.
FoundAt(i) == ReturnFound(Some([medicine |-> medicines[i], idx |-> i]))

\* What a caller gets from find_medicine(name) in this state.
Lookup(name) ==
    LET r == find_medicine(name)
    IN  [raised |-> r.raised,
         ret |-> IF r.raised # "none" THEN NoReturn
                 ELSE IF r.found = None THEN ReturnFound(None)
                 ELSE FoundAt(r.found[1])]

\* Two strings that differ in the case of letters at most.
DifferOnlyInCase(a, b) ==
    /\ Len(a) = Len(b)
    /\ \A i \in DOMAIN a :
          \/ a[i] = b[i]
          \/ a[i] \in DOMAIN LowerOf /\ LowerOf[a[i]] = b[i]
          \/ b[i] \in DOMAIN LowerOf /\ LowerOf[b[i]] = a[i]

\* The positions of the records whose lowercased name is q, and of those
\* whose lowercased name contains q.
Named(q) == {i \in DOMAIN medicines : lower(medicines[i].name) = q}

Containing(q) == {i \in DOMAIN medicines : contains(q, lower(medicines[i].name))}

Least(S) == CHOOSE x \in S : \A y \in S : x <= y

(***************************************************************************)
(* C12.  find_medicine is case-insensitive: a name that differs from the   *)
(* name of the call in letter case only resolves to the same record, or    *)
(* both are not found.                                                     *)
(***************************************************************************)
C12_CaseInsensitive ==
    IsFind =>
        \A other \in Spellings :
            DifferOnlyInCase(other, call.name)
                => Lookup(other) = [raised |-> raised, ret |-> ret]

\* ASPIRIN resolves, and so do two other spellings of it.
C12_Witness ==
    /\ IsFind
    /\ Loaded
    /\ call.name = s_ASPIRIN
    /\ ret.list # None
    /\ Cardinality({other \in Spellings : DifferOnlyInCase(other, call.name)}) >= 3

(***************************************************************************)
(* C13.  find_medicine tries the exact match first: when the name, in      *)
(* lower case, is the lowercased name of some record, a record of that     *)
(* name is returned, even if the name is also a substring of the name of   *)
(* a record at an earlier position.                                        *)
(***************************************************************************)
C13_ExactMatchFirst ==
    (IsFind /\ Loaded /\ Named(lower(call.name)) # {})
        => (/\ raised = "none"
            /\ \E i \in Named(lower(call.name)) : ret = FoundAt(i))

\* The record at position 2 is returned though the name of the record at
\* position 1 contains the name asked for.
C13_Witness ==
    /\ IsFind
    /\ Loaded
    /\ Named(lower(call.name)) = {2}
    /\ 1 \in Containing(lower(call.name))
    /\ ret = FoundAt(2)

(***************************************************************************)
(* C14 as stated.  When no record name equals the name asked for           *)
(* case-insensitively, find_medicine returns the record at the smallest    *)
(* position whose lowercased name contains the lowercased name asked for,  *)
(* and None exactly when no name contains it.                              *)
(***************************************************************************)
C14_FuzzyFallback_AsStated ==
    (IsFind /\ Loaded /\ Named(lower(call.name)) = {})
        => (/\ raised = "none"
            /\ ret = IF Containing(lower(call.name)) = {} THEN ReturnFound(None)
                     ELSE FoundAt(Least(Containing(lower(call.name)))))

(***************************************************************************)
(* C14, amended.  The name asked for is lowercased and stripped of leading *)
(* and trailing whitespace before it is compared.  When no record name, in *)
(* lower case, equals it, find_medicine returns the record at the smallest *)
(* position whose lowercased name contains it, and None exactly when no    *)
(* name contains it.                                                       *)
(***************************************************************************)
C14_FuzzyFallback ==
    (IsFind /\ Loaded /\ Named(strip(lower(call.name))) = {})
        => (/\ raised = "none"
            /\ ret = IF Containing(strip(lower(call.name))) = {} THEN ReturnFound(None)
                     ELSE FoundAt(Least(Containing(strip(lower(call.name))))))

\* A padded name that no record bears and two records contain: the first of
\* the two is returned.
C14_Witness ==
    /\ IsFind
    /\ Loaded
    /\ call.name # strip(call.name)
    /\ Named(strip(lower(call.name))) = {}
    /\ Cardinality(Containing(strip(lower(call.name)))) >= 2
    /\ ret = FoundAt(1)

(***************************************************************************)
(* C15.  When several records share a lowercased name, the index map holds *)
(* the position of the last of them, and find_medicine asked for that name *)
(* returns that last record.                                               *)
(***************************************************************************)
C15_LastDuplicateWins ==
    (IsFind /\ Loaded /\ Named(lower(call.name)) # {})
        => (/\ medicine_index_map[lower(call.name)] = Max(Named(lower(call.name)))
            /\ raised = "none"
            /\ ret = FoundAt(Max(Named(lower(call.name)))))

\* Two records of one lowercased name: the second is returned.
C15_Witness ==
    /\ IsFind
    /\ Loaded
    /\ Cardinality(Named(lower(call.name))) >= 2
    /\ ret = FoundAt(2)

(***************************************************************************)
(* C16.  For every name that resolves on a trained catalogue, the scores   *)
(* recommend_similar returns are the cosines against the vector at the     *)
(* position of the record find_medicine returned, and the position left    *)
(* out by exclude_self is that position; also when the name resolved by    *)
(* the fuzzy search and another record bears the same lowercased name.     *)
(***************************************************************************)
C16_ScoresAgainstResolvedRecord ==
    (IsRecommend /\ TrainedCatalogue /\ raised = "none" /\ Resolved.found # None)
        => (/\ \A k \in DOMAIN Returned :
                  Returned[k].score
                      = cosine(feature_vectors[1][Resolved.found[1]],
                               feature_vectors[1][Returned[k].idx])
            /\ (call.exclude_self /\ call.top_n >= Len(medicines))
                  => {Returned[k].idx : k \in DOMAIN Returned}
                        = DOMAIN medicines \ {Resolved.found[1]})

(***************************************************************************)
(* C17.  The shared uses get_recommendation_details reports for two        *)
(* records are exactly the strings that are a use of both, and the shared  *)
(* components exactly the strings that are a component of both (equal      *)
(* character by character; a use is never matched with a component), and   *)
(* they are the same when the two records are swapped.                     *)
(***************************************************************************)
IsDetails == call.op = "get_recommendation_details"

\* Every string that is a use or a component of record a or of record b.
StringsOf(a, b) ==
    Range(get(a, "uses")) \cup Range(get(a, "components"))
        \cup Range(get(b, "uses")) \cup Range(get(b, "components"))

\* The use (component, for key "components") at position i of record a.
Item(a, key, i) == get(a, key)[i]

C17_SharedAreIntersections ==
    (IsDetails /\ raised = "none") =>
        \A rank \in DOMAIN ret.list :
            LET o == call.original_medicine
                m == ret.list[rank].medicine
                swapped == get_recommendation_details(
                               m, <<[medicine |-> o, score |-> ret.list[rank].score]>>)
            IN  /\ \A key \in {"uses", "components"} :
                      \A u \in StringsOf(o, m) \cup ret.list[rank].shared_uses
                                \cup ret.list[rank].shared_components :
                          (u \in (IF key = "uses" THEN ret.list[rank].shared_uses
                                  ELSE ret.list[rank].shared_components))
                              <=> (/\ \E i \in DOMAIN get(o, key) : Item(o, key, i) = u
                                   /\ \E j \in DOMAIN get(m, key) : Item(m, key, j) = u)
                /\ swapped.raised = "none"
                /\ swapped.details[1].shared_uses = ret.list[rank].shared_uses
                /\ swapped.details[1].shared_components = ret.list[rank].shared_components

\* The first record has a use the second has in another case and a use that
\* is a component of the second; a third use and a component are shared.
C17_Witness ==
    /\ IsDetails
    /\ raised = "none"
    /\ \E rank \in DOMAIN ret.list :
          LET o == call.original_medicine
              m == ret.list[rank].medicine
          IN  /\ \E u \in Range(get(o, "uses")), v \in Range(get(m, "uses")) :
                    u # v /\ lower(u) = lower(v)
              /\ Range(get(o, "uses")) \cap Range(get(m, "components")) # {}
              /\ ret.list[rank].shared_uses = {s_fever}
              /\ ret.list[rank].shared_components = {s_acetylsalicylic_acid}

(***************************************************************************)
(* C18.  On the catalogue Aspirin, Ibuprofen, Amoxicillin, loaded and      *)
(* trained, recommend_similar("Aspirin", 2) returns Ibuprofen first and    *)
(* Amoxicillin second, and the shared uses reported for Aspirin and        *)
(* Ibuprofen are exactly {"pain relief"}.                                  *)
(***************************************************************************)
Scenario == <<Aspirin, Ibuprofen, Amoxicillin>>

C18_Scenario ==
    /\ (/\ IsRecommend
        /\ TrainedCatalogue
        /\ medicines = Scenario
        /\ call.medicine_name = s_Aspirin
        /\ call.top_n = 2
        /\ call.exclude_self)
           => (/\ raised = "none"
               /\ Len(Returned) = 2
               /\ Returned[1].medicine = Ibuprofen
               /\ Returned[2].medicine = Amoxicillin
               /\ Returned[1].score > Returned[2].score)
    /\ (/\ IsDetails
        /\ TrainedCatalogue
        /\ medicines = Scenario
        /\ call.original_medicine = Aspirin)
           => (/\ raised = "none"
               /\ \A rank \in DOMAIN ret.list :
                     ret.list[rank].medicine = Ibuprofen
                         => ret.list[rank].shared_uses = {s_pain_relief})

\* The details of the two recommendations for Aspirin on the scenario.
C18_Witness ==
    /\ IsDetails
    /\ TrainedCatalogue
    /\ medicines = Scenario
    /\ call.original_medicine = Aspirin
    /\ Len(ret.list) = 2
    /\ ret.list[1].medicine = Ibuprofen
    /\ ret.list[1].shared_uses = {s_pain_relief}
    /\ ret.list[2].medicine = Amoxicillin

(***************************************************************************)
(* C19.  A non-empty catalogue in which some record has neither uses nor   *)
(* components is not rejected: train_model succeeds without raising and    *)
(* gives that record the zero vector; its score is 0 in every list         *)
(* recommend_similar returns, where it comes last or tied last.            *)
(***************************************************************************)
Featureless(medicine) == get(medicine, "uses") = <<>> /\ get(medicine, "components") = <<>>

C19_FeaturelessRecordTolerated ==
    /\ (/\ call.op = "train_model"
        /\ WellFormed(medicines)
        /\ \E i \in DOMAIN medicines : Featureless(medicines[i]))
           => (/\ raised = "none"
               /\ ret = ReturnBool(TRUE)
               /\ \A i \in DOMAIN medicines :
                     Featureless(medicines[i]) => DOMAIN feature_vectors[1][i] = {})
    /\ (IsRecommend /\ TrainedCatalogue /\ raised = "none")
           => \A k \in DOMAIN Returned :
                 Featureless(Returned[k].medicine)
                     => \A l \in k..Len(Returned) : Returned[l].score = 0

(***************************************************************************)
(* C20.  With exclude_self false, the score recommend_similar returns for  *)
(* the record the name resolved to is 1 when the vector of that record is  *)
(* not the zero vector and 0 when it is.                                   *)
(***************************************************************************)
C20_SelfScore ==
    (/\ IsRecommend
     /\ TrainedCatalogue
     /\ ~call.exclude_self
     /\ raised = "none"
     /\ Resolved.found # None)
        => \A k \in DOMAIN Returned :
              Returned[k].idx = Resolved.found[1]
                  => Returned[k].score
                        = (IF DOMAIN feature_vectors[1][Resolved.found[1]] = {}
                           THEN 0 ELSE Unit)

TermsAt(i) == Range(analyze(prepare_features(medicines[i])))

DocumentFrequency(t) == Cardinality({i \in DOMAIN medicines : t \in TermsAt(i)})

C22_VocabularyCeiling ==
    (call.op = "train_model" /\ medicines # <<>>)
        => (/\ raised = "none"
            /\ ret = ReturnBool(TRUE)
            /\ vectorizer # None
            /\ \A t \in UNION {TermsAt(i) : i \in DOMAIN medicines} :
                  t \in vectorizer[1].vocabulary_
                      <=> (/\ DocumentFrequency(t) >= 1
                           /\ 100 * DocumentFrequency(t) <= 95 * Len(medicines))
            /\ vectorizer[1].vocabulary_
                  \subseteq UNION {TermsAt(i) : i \in DOMAIN medicines}
            /\ feature_vectors # None
            /\ \A i \in DOMAIN medicines :
                  DOMAIN feature_vectors[1][i] \subseteq vectorizer[1].vocabulary_)

(***************************************************************************)
(* C24.  Whenever recommend_similar passes its trained check, there is     *)
(* exactly one vector per record of the list held and the vector at        *)
(* position i was computed from the record now at position i, so that      *)
(* recommend_similar never subscripts a position without vector or record. *)
(***************************************************************************)
\* The matrix train_model computes from the list held.
VectorsOf(meds) == fit_transform([i \in DOMAIN meds |-> prepare_features(meds[i])]).X

C24_VectorsAligned ==
    (IsRecommend /\ ~model_not_trained)
        => (/\ DOMAIN feature_vectors[1] = DOMAIN medicines
            /\ feature_vectors[1] = VectorsOf(medicines)
            /\ raised # "IndexError")

(***************************************************************************)
(* C27.  A load_database that fails (file missing, invalid JSON, or a      *)
(* record without a name) leaves the list of records, the index map and    *)
(* the vectors as they were before the call.                               *)
(***************************************************************************)
FailedLoadChangesNothing ==
    (call = Idle /\ call'.op = "load_database" /\ ret' # ReturnBool(TRUE))
        => (/\ medicines' = medicines
            /\ medicine_index_map' = medicine_index_map
            /\ feature_vectors' = feature_vectors)

C27_FailedLoadFrame == [][FailedLoadChangesNothing]_vars

(***************************************************************************)
(* C28.  recommend_similar never returns a position twice, and with        *)
(* exclude_self false and top_n at least the size of a trained catalogue   *)
(* it returns every record of the catalogue exactly once.                  *)
(***************************************************************************)
C28_NoPositionTwice ==
    /\ (IsRecommend /\ raised = "none")
           => \A k, l \in DOMAIN Returned : Returned[k].idx = Returned[l].idx => k = l
    /\ (/\ IsRecommend
        /\ TrainedCatalogue
        /\ ~call.exclude_self
        /\ call.top_n >= Len(medicines)
        /\ Resolved.found # None)
           => (/\ raised = "none"
               /\ Len(Returned) = Len(medicines)
               /\ \A i \in DOMAIN medicines :
                     \E k \in DOMAIN Returned :
                         Returned[k].idx = i /\ Returned[k].medicine = medicines[i])

\* All three records of a catalogue returned, two of them with equal scores.
C28_Witness ==
    /\ IsRecommend
    /\ TrainedCatalogue
    /\ ~call.exclude_self
    /\ raised = "none"
    /\ Len(medicines) = 3
    /\ Len(Returned) = 3
    /\ Returned[2].score = Returned[3].score

(***************************************************************************)
(* C29.  find_medicine given an empty name or a name of whitespace only,   *)
(* on a list that is not empty, returns None: it does not resolve to a     *)
(* record through the fuzzy search.                                        *)
(***************************************************************************)
C29_BlankNameNotFound ==
    (IsFind /\ Loaded /\ medicines # <<>> /\ strip(call.name) = <<>>)
        => (raised = "none" /\ ret = ReturnFound(None))

(***************************************************************************)
(* The catalogue changed from outside.  self.medicines is a public         *)
(* attribute: a caller that holds the recommender can remove, add or       *)
(* rename a record of the list without load_database.  SpecMutation is     *)
(* Spec with such a caller; it changes a list only as load_database left   *)
(* it.                                                                     *)
(***************************************************************************)
\* The lists one change makes of meds: the first record removed, Amoxicillin
\* added at the end, the first record renamed.
Mutated(meds) ==
    IF meds = <<>> THEN {}
    ELSE {Tail(meds) : n \in {Len(meds)} \ {1}}
             \cup {Append(meds, Amoxicillin) : n \in {Len(meds)} \ {MaxRows}}
             \cup {[meds EXCEPT ![1].name = s_Advil]}

mutate_catalogue(new_medicines) ==
    /\ call = Idle
    /\ medicines # <<>>
    /\ WellFormed(medicines)
    /\ medicine_index_map = index_map(medicines)
    /\ new_medicines \in Mutated(medicines)
    /\ medicines' = new_medicines
    /\ UNCHANGED <<vectorizer, feature_vectors, medicine_index_map, argsort_ties,
                   call, ret, raised, stdout, trained_ok, loaded_since_train, trained_on>>

NextMutation ==
    \/ Next
    \/ \E new_medicines \in Mutated(medicines) : mutate_catalogue(new_medicines)

SpecMutation == Init /\ [][NextMutation]_vars

(***************************************************************************)
(* C23.  train_model recomputes everything derived from the list of        *)
(* records, the index map included: once train_model has succeeded on a    *)
(* list changed from outside, find_medicine and recommend_similar resolve  *)
(* names and positions by the list as it is.                               *)
(***************************************************************************)
\* What find_medicine returns for name by the list as it is.
ByTheList(name) ==
    LET q == strip(lower(name))
    IN  IF Named(q) # {} THEN FoundAt(Max(Named(q)))
        ELSE IF Containing(q) # {} THEN FoundAt(Least(Containing(q)))
        ELSE ReturnFound(None)

C23_TrainRebuildsIndex ==
    /\ (IsFind /\ TrainedCatalogue)
           => (raised = "none" /\ ret = ByTheList(call.name))
    /\ (/\ IsRecommend
        /\ TrainedCatalogue
        /\ ByTheList(call.medicine_name) # ReturnFound(None))
           => (/\ raised = "none"
               /\ stdout = <<>>
               /\ \A k \in DOMAIN Returned :
                     Returned[k].medicine = medicines[Returned[k].idx])

(***************************************************************************)
(* The command line front end, src/main.py.  SpecMain is the recommender   *)
(* driven by main alone: load_database, train_model, then the loop that    *)
(* asks for a name and a number of recommendations.  main ends when        *)
(* load_database or train_model does not return True, when a call raises,  *)
(* and when the user quits.                                                *)
(***************************************************************************)
s_quit == <<"q", "u", "i", "t">>
s_exit == <<"e", "x", "i", "t">>
s_q == <<"q">>
s_Q == <<"Q">>
s_Aspirin_padded == <<" ", "A", "s", "p", "i", "r", "i", "n", " ">>

\* What the user types at "Enter medicine name".
NameInputs == {s_Aspirin_padded, s_spir, s_Zyrtec, s_Q, s_quit, s_empty, s_blank}

\* What the user types at "Number of recommendations", with the integer
\* typed (None when the text is not an integer).
TopNInputs ==
    { [text |-> <<>>, entered |-> None],
      [text |-> <<" ">>, entered |-> None],
      [text |-> <<"a", "b", "c">>, entered |-> None],
      [text |-> <<"2", ".", "5">>, entered |-> None],
      [text |-> <<"-">>, entered |-> None],
      [text |-> <<"0">>, entered |-> Some(0)],
      [text |-> <<"-", "2">>, entered |-> Some(0 - 2)],
      [text |-> <<"1">>, entered |-> Some(1)],
      [text |-> <<" ", "2", " ">>, entered |-> Some(2)],
      [text |-> <<"+", "3">>, entered |-> Some(3)],
      [text |-> <<"1", "2">>, entered |-> Some(12)] }

DigitValue == [d \in Digits |->
                  CASE d = "0" -> 0 [] d = "1" -> 1 [] d = "2" -> 2 [] d = "3" -> 3
                    [] d = "4" -> 4 [] d = "5" -> 5 [] d = "6" -> 6 [] d = "7" -> 7
                    [] d = "8" -> 8 [] d = "9" -> 9]

\* The value of a string of decimal digits, acc being that of those read.
RECURSIVE digits_value(_, _)
digits_value(digits, acc) ==
    IF digits = <<>> THEN acc
    ELSE digits_value(Tail(digits), 10 * acc + DigitValue[Head(digits)])

\* int(text): whitespace around, an optional sign, decimal digits; anything
\* else raises ValueError.
int(text) ==
    LET t == strip(text)
        signed == t # <<>> /\ Head(t) \in {"+", "-"}
        digits == IF signed THEN Tail(t) ELSE t
    IN  IF digits = <<>> \/ \E i \in DOMAIN digits : digits[i] \notin Digits
        THEN [raised |-> "ValueError", value |-> 0]
        ELSE [raised |-> "none",
              value |-> IF signed /\ Head(t) = "-" THEN 0 - digits_value(digits, 0)
                        ELSE digits_value(digits, 0)]

\* The default of main for the number of recommendations.
default_top_n == 5

\* Lines 46-52 without the test top_n < 1.
read_top_n_unchecked(line) ==
    LET top_n_input == strip(line)
        parsed == int(top_n_input)
    IN  IF top_n_input = <<>> THEN default_top_n
        ELSE IF parsed.raised # "none" THEN default_top_n
        ELSE parsed.value

\* Lines 46-52: the top_n main passes on for the line the user typed.
read_top_n(line) ==
    LET top_n_input == strip(line)
        parsed == int(top_n_input)
    IN  IF top_n_input = <<>> THEN default_top_n
        ELSE IF parsed.raised # "none" THEN default_top_n
        ELSE IF parsed.value < 1 THEN default_top_n
        ELSE parsed.value

\* main has ended.
Exited == [op |-> "exit"]

\* Lines 20-22: the first call of main.
main_load(f) ==
    /\ ~trained_ok
    /\ ~loaded_since_train
    /\ load_database(f)

\* Lines 26-28: the call that follows a load_database that returned True.
main_train ==
    /\ ~trained_ok
    /\ loaded_since_train
    /\ train_model

\* One turn of the loop, lines 33-59: the two lines the user types, up to
\* the call of recommend_similar, which gets the default exclude_self.
main_asks(name_line, top_n_line) ==
    LET medicine_name == strip(name_line)
    IN  /\ trained_ok
        /\ ~loaded_since_train
        /\ call = Idle
        /\ IF lower(medicine_name) \in {s_quit, s_exit, s_q}
           THEN /\ call' = Exited
                /\ stdout' = <<"Thank you for using Medicine Recommendation System!">>
                /\ UNCHANGED <<medicines, vectorizer, feature_vectors, medicine_index_map,
                               argsort_ties, ret, raised, trained_ok, loaded_since_train,
                               trained_on>>
           ELSE IF medicine_name = <<>>
           THEN /\ call' = [op |-> "input"]
                /\ stdout' = <<"Please enter a valid medicine name.">>
                /\ UNCHANGED <<medicines, vectorizer, feature_vectors, medicine_index_map,
                               argsort_ties, ret, raised, trained_ok, loaded_since_train,
                               trained_on>>
           ELSE recommend_similar(medicine_name, read_top_n(top_n_line), TRUE)

\* main goes on after a call: it returns after a load_database or a
\* train_model that did not return True, and an exception ends it.
main_continues ==
    /\ call # Exited
    /\ raised = "none"
    /\ call.op \in {"load_database", "train_model"} => ret = ReturnBool(TRUE)
    /\ caller_continues

NextMain ==
    \/ \E f \in Files : main_load(f)
    \/ main_train
    \/ \E name_line \in NameInputs, t \in TopNInputs : main_asks(name_line, t.text)
    \/ display_results
    \/ main_continues

SpecMain == Init /\ [][NextMain]_vars

(***************************************************************************)
(* C25.  main never passes a top_n below 1 to recommend_similar: whatever  *)
(* the user types for the number of recommendations (nothing, no number,   *)
(* zero, a negative or a positive integer), recommend_similar gets the     *)
(* integer typed when it is at least 1 and the default 5 otherwise.        *)
(***************************************************************************)
\* The top_n of the statement for what the user typed.
TopNFor(t) == IF t.entered # None /\ t.entered[1] >= 1 THEN t.entered[1] ELSE 5

PassesTypedTopN ==
    \A name_line \in NameInputs, t \in TopNInputs :
        (/\ call = Idle
         /\ call'.op = "recommend_similar"
         /\ call'.medicine_name = strip(name_line)
         /\ main_asks(name_line, t.text))
            => call'.top_n = TopNFor(t)

C25_TopNAtLeastOne ==
    [](IsRecommend => call.top_n >= 1) /\ [][PassesTypedTopN]_vars

\* recommend_similar called with a number of two digits the user typed.
C25_Witness ==
    /\ IsRecommend
    /\ TrainedCatalogue
    /\ call.top_n = 12
    /\ Returned # <<>>

(***************************************************************************)
(* C26.  When the caller makes every load_database and train_model call    *)
(* and every recommend_similar call one after the other, each              *)
(* recommend_similar that passes the trained check works on a list of      *)
(* records, an index map and vectors of one and the same load and train.   *)
(***************************************************************************)
C26_SerializedCallsSeeOneLoadAndTrain ==
    (IsRecommend /\ ~model_not_trained)
        => (Loaded /\ trained_on = Some(medicines))

(***************************************************************************)
(* The collector, src/collect_medicines.py: fetch_from_api fetches         *)
(* medicines with FDAMedicineFetcher.fetch_popular_medicines and merges    *)
(* them into the database file.  SpecCollect is the collector run on a     *)
(* database file, whatever the API answers.  The backup it makes first is  *)
(* a copy beside the database and is left out.                             *)
(***************************************************************************)
s_Tylenol == <<"T", "y", "l", "e", "n", "o", "l">>
s_acetaminophen == <<"a", "c", "e", "t", "a", "m", "i", "n", "o", "p", "h", "e", "n">>

\* The record the API gives both for "acetaminophen" and for "paracetamol".
Tylenol ==
    [name |-> s_Tylenol, uses |-> <<s_pain_relief, s_fever>>,
     components |-> <<s_acetaminophen>>]

\* What fetch_medicine_by_name returns for one name searched: None or a
\* record.
Answers == {None, Some(Aspirin), Some(Tylenol)}

\* fetch_popular_medicines(limit): the records found for the first limit
\* names of common_medicines, in order; api[k] is the answer for the k-th.
RECURSIVE fetch_popular_medicines(_, _)
fetch_popular_medicines(limit, api) ==
    IF limit = 0 THEN <<>>
    ELSE LET medicines_so_far == fetch_popular_medicines(limit - 1, api)
         IN  IF api[limit] = None THEN medicines_so_far
             ELSE Append(medicines_so_far, api[limit][1])

\* The merge: the fetched medicines whose lowercased name no existing
\* record bears, put after the existing records.
merge(existing_medicines, fetched) ==
    LET existing_names ==
            {lower(get(existing_medicines[i], "name")) : i \in DOMAIN existing_medicines}
        is_new(m) == lower(get(m, "name")) \notin existing_names
        new_medicines == SelectSeq(fetched, is_new)
    IN  existing_medicines \o new_medicines

\* The database file as fetch_from_api saved it.
ReturnSaved(all_medicines) == [kind |-> "saved", bool |-> FALSE, list |-> all_medicines]

\* One run of fetch_from_api on the database file f, the user asking for
\* limit medicines.  Only FileNotFoundError is caught when the database is
\* read.
fetch_from_api(f, limit, api) ==
    LET fetched == fetch_popular_medicines(limit, api)
        existing_medicines == IF f.kind = "json" THEN get(f.data, "medicines") ELSE <<>>
    IN  /\ call = Idle
        /\ call' = [op |-> "fetch_from_api", file |-> f, medicines |-> fetched]
        /\ ret' = IF fetched = <<>> \/ f.kind = "invalid_json" THEN NoReturn
                  ELSE ReturnSaved(merge(existing_medicines, fetched))
        /\ raised' = IF fetched # <<>> /\ f.kind = "invalid_json" THEN "JSONDecodeError"
                     ELSE "none"
        /\ stdout' = IF fetched = <<>> THEN <<"No medicines were fetched. Please try again.">>
                     ELSE IF f.kind = "invalid_json" THEN <<>>
                     ELSE <<"Successfully added new medicines">>
        /\ UNCHANGED <<medicines, vectorizer, feature_vectors, medicine_index_map,
                       argsort_ties, trained_ok, loaded_since_train, trained_on>>

NextCollect ==
    \/ caller_continues
    \/ \E f \in Files, limit \in 1..MaxFetchLimit, api \in [1..MaxFetchLimit -> Answers] :
          fetch_from_api(f, limit, api)

SpecCollect == Init /\ [][NextCollect]_vars

(***************************************************************************)
(* C30.  When fetched medicines are merged into the database, every        *)
(* existing record is kept as it is and in its place, ahead of the new     *)
(* ones; and if no two existing records had the same lowercased name, no   *)
(* two records of the saved database have, also when two fetched medicines *)
(* bear the same name.                                                     *)
(***************************************************************************)
NoTwoOfOneName(meds) ==
    \A i, j \in DOMAIN meds :
        i # j => lower(get(meds[i], "name")) # lower(get(meds[j], "name"))

C30_MergeKeepsNamesUnique ==
    (call.op = "fetch_from_api" /\ ret.kind = "saved")
        => LET existing_medicines ==
                   IF call.file.kind = "json" THEN get(call.file.data, "medicines") ELSE <<>>
           IN  /\ Len(ret.list) >= Len(existing_medicines)
               /\ SubSeq(ret.list, 1, Len(existing_medicines)) = existing_medicines
               /\ \A k \in (Len(existing_medicines) + 1)..Len(ret.list) :
                     \E i \in DOMAIN call.medicines : call.medicines[i] = ret.list[k]
               /\ NoTwoOfOneName(existing_medicines) => NoTwoOfOneName(ret.list)

====
